---- MODULE Spec2Model ----
(***************************************************************************)
(* MetricDB (src/MetricDB/src/main.py): a metric logger over one sqlite3   *)
(* connection.  The model keeps two copies of the database: `disk`, what   *)
(* is committed in the datafile, and `view`, what the open connection      *)
(* sees (committed data plus the statements of a transaction that is still *)
(* open).  Python's sqlite3 (default isolation_level "") runs DDL          *)
(* (CREATE TABLE, ALTER TABLE) in autocommit unless a transaction is       *)
(* already open, issues BEGIN before an INSERT, and rolls an open          *)
(* transaction back when the connection is closed.                         *)
(***************************************************************************)
EXTENDS Integers, Sequences, FiniteSets, TLC

VARIABLES disk, view, in_tx, conn, verbose, ret, hist, nlog

vars == <<disk, view, in_tx, conn, verbose, ret, hist, nlog>>

(* ------------------------------ bounds --------------------------------- *)

\* log calls in one run
MaxLogs == 2
\* keys in one data mapping
MaxKeys == 1
\* largest window_size tried besides the default
MaxWindow == 2

\* default window_size of get_moving_average
DefaultWindow == 12

(* ------------------------------ inputs --------------------------------- *)

\* "main" is the default name_table of every method
Tables == {"main", "val"}

\* metric keys; "id" is also the name of the identity column
Keys == {"a", "b", "id"}

IntValues == {-1, 2}

PyInt(n) == [ty |-> "int", n |-> n, s |-> ""]
PyStr(s) == [ty |-> "str", n |-> 0, s |-> s]
\* a value of a type sqlite3 cannot bind
PyList == [ty |-> "list", n |-> 0, s |-> ""]

\* the values logged where the schema is exercised: numbers and a value
\* that cannot be stored
SchemaValues == {PyInt(n) : n \in IntValues} \cup {PyList}

\* the values logged where the average is exercised: numbers and a text
\* that is no number
AvgValues == {PyInt(n) : n \in IntValues} \cup {PyStr("x")}

AvgKeys == {"a", "b"}

AvgTables == {"main"}

WindowSizes == (0..MaxWindow) \cup {DefaultWindow}

Range(s) == {s[i] : i \in DOMAIN s}

\* the dicts over keys KS and values VS: the items in iteration order, the
\* keys distinct
Dicts(KS, VS) ==
    {d \in UNION {[1..n -> [key : KS, val : VS]] : n \in 0..MaxKeys} :
        \A i, j \in DOMAIN d : i # j => d[i].key # d[j].key}

DictKeys(d) == [i \in DOMAIN d |-> d[i].key]

DictGet(d, k) == d[CHOOSE i \in DOMAIN d : d[i].key = k].val

(* --------------------------- the database ------------------------------ *)

NULL == <<>>
Text(s) == <<s>>

\* a table: its columns in order (id first), its rows (the rowid and one
\* cell per further column, NULL or text) and seq, the AUTOINCREMENT counter
\* SQLite keeps for it in sqlite_sequence.  Table and key names are taken
\* in one spelling, so SQLite's case-insensitive matching plays no part.
NoTable == [exists |-> FALSE, cols |-> <<>>, rows |-> {}, seq |-> 0]

EmptyDb == [t \in Tables |-> NoTable]

Max(S) == CHOOSE m \in S : \A x \in S : x <= m

\* PRAGMA table_info(t): the column names, none for a missing table
TableInfo(db, t) == db[t].cols

\* SELECT name FROM sqlite_master WHERE type='table' AND name=?
InMaster(db, t) == db[t].exists

\* sqlite3's adaptation of a bound parameter and the TEXT affinity of the
\* column: an int is stored as its decimal text
Adapt(v) == IF v.ty = "int" THEN Text(ToString(v.n)) ELSE Text(v.s)

Bindable(v) == v.ty # "list"

\* float(text): the decimal numerals parse, other text raises ValueError
IsFloatText(s) == \E n \in IntValues : ToString(n) = s

ParseFloat(s) == CHOOSE n \in IntValues : ToString(n) = s

\* CREATE TABLE IF NOT EXISTS t (id INTEGER PRIMARY KEY AUTOINCREMENT, cols)
SqlCreateTable(db, t, keys) ==
    LET cols == <<"id">> \o keys IN
    IF keys = <<>>
    THEN [err |-> "OperationalError", db |-> db]
    ELSE IF db[t].exists
    THEN [err |-> "", db |-> db]
    ELSE IF \E i, j \in DOMAIN cols : i # j /\ cols[i] = cols[j]
    THEN [err |-> "OperationalError", db |-> db]
    ELSE [err |-> "",
          db |-> [db EXCEPT ![t] =
                    [exists |-> TRUE, cols |-> cols, rows |-> {}, seq |-> 0]]]

\* ALTER TABLE t ADD COLUMN "key" TEXT: the rows read NULL in the new column
SqlAddColumn(db, t, key) ==
    IF \E c \in Range(db[t].cols) : c = key
    THEN [err |-> "OperationalError", db |-> db]
    ELSE [err |-> "",
          db |-> [db EXCEPT ![t].cols = Append(@, key),
                            ![t].rows = {[r EXCEPT !.cells = Append(@, NULL)] : r \in @}]]

\* the loop adds no column
AddMissingNone(db, t, keys, existing, i) == [err |-> "", db |-> db]

\* for key in data.keys(): if key not in existing_columns: ALTER TABLE ...
RECURSIVE AddMissing(_, _, _, _, _)
AddMissing(db, t, keys, existing, i) ==
    IF i > Len(keys)
    THEN [err |-> "", db |-> db]
    ELSE IF keys[i] \in existing
    THEN AddMissing(db, t, keys, existing, i + 1)
    ELSE LET r == SqlAddColumn(db, t, keys[i]) IN
         IF r.err # "" THEN r ELSE AddMissing(r.db, t, keys, existing, i + 1)

\* the rowid AUTOINCREMENT gives: one more than the largest there ever was
NextRowid(tbl) == Max({tbl.seq} \cup {r.id : r \in tbl.rows}) + 1

\* the row an INSERT of data's columns stores under rowid
NewRow(cols, data, rowid) ==
    [id |-> rowid,
     cells |-> [j \in 1..(Len(cols) - 1) |->
                  IF cols[j + 1] \in Range(DictKeys(data))
                  THEN Adapt(DictGet(data, cols[j + 1]))
                  ELSE NULL]]

\* INSERT INTO t (keys) VALUES (?, ...)
SqlInsert(db, t, data) ==
    LET tbl == db[t]
        keys == Range(DictKeys(data))
        given == "id" \in keys
        idv == IF given THEN DictGet(data, "id") ELSE PyInt(0)
        rowid == IF given THEN idv.n ELSE NextRowid(tbl)
    IN
    IF \E i \in DOMAIN data : ~Bindable(data[i].val)
    THEN [err |-> "ProgrammingError", db |-> db]
    ELSE IF given /\ idv.ty # "int"
    THEN [err |-> "IntegrityError", db |-> db]
    ELSE IF given /\ rowid \in {r.id : r \in tbl.rows}
    THEN [err |-> "IntegrityError", db |-> db]
    ELSE [err |-> "",
          db |-> [db EXCEPT ![t].rows = @ \cup {NewRow(tbl.cols, data, rowid)},
                            ![t].seq = Max({@, rowid})]]

(* ------------------------------ log ------------------------------------ *)

\* what a DDL statement leaves in the datafile: it is committed at once
\* unless a transaction is open
AfterDdl(intx, dsk, db) == IF intx THEN dsk ELSE db

\* log(data, name_table) on an open connection: the exception it raises
\* ("" for none) and the database and transaction it leaves
LogCall(vw, dsk, intx, data, t) ==
    LET keys == DictKeys(data)
        c == SqlCreateTable(vw, t, keys)
    IN
    IF c.err # ""
    THEN [exc |-> c.err, view |-> vw, disk |-> dsk, in_tx |-> intx]
    ELSE
    LET existing == Range(TableInfo(c.db, t))
        a == AddMissing(c.db, t, keys, existing, 1)
    IN
    IF a.err # ""
    THEN [exc |-> a.err, view |-> a.db, disk |-> AfterDdl(intx, dsk, a.db),
          in_tx |-> intx]
    ELSE
    LET i == SqlInsert(a.db, t, data) IN
    IF i.err # ""
    THEN \* BEGIN was issued before the INSERT failed; nothing commits
         [exc |-> i.err, view |-> a.db, disk |-> AfterDdl(intx, dsk, a.db),
          in_tx |-> TRUE]
    ELSE \* self.connect.commit()
         [exc |-> "", view |-> i.db, disk |-> i.db, in_tx |-> FALSE]

(* ------------------------------ reads ---------------------------------- *)

\* the value of column key in row r
Cell(cols, r, key) ==
    LET j == CHOOSE j \in DOMAIN cols : cols[j] = key IN
    IF j = 1 THEN <<r.id>> ELSE r.cells[j - 1]

\* rows in descending rowid order
RECURSIVE OrderDesc(_)
OrderDesc(rows) ==
    IF rows = {} THEN <<>>
    ELSE LET top == CHOOSE r \in rows : \A q \in rows : q.id <= r.id
         IN <<top>> \o OrderDesc(rows \ {top})

\* rows in ascending rowid order, as SELECT * returns them
RECURSIVE OrderAsc(_)
OrderAsc(rows) ==
    IF rows = {} THEN <<>>
    ELSE LET low == CHOOSE r \in rows : \A q \in rows : r.id <= q.id
         IN <<low>> \o OrderAsc(rows \ {low})

\* LIMIT n: a negative n is no limit
Limit(s, n) == IF n < 0 \/ n >= Len(s) THEN s ELSE SubSeq(s, 1, n)

NotNull(v) == v # NULL

\* the limit is taken before the NULLs are dropped
SelectRecentLimitFirst(tbl, key, w) ==
    LET all == OrderDesc(tbl.rows)
        vals == [i \in DOMAIN all |-> Cell(tbl.cols, all[i], key)]
    IN SelectSeq(Limit(vals, w), NotNull)

\* SELECT "key" FROM t WHERE "key" IS NOT NULL ORDER BY id DESC LIMIT w
SelectRecent(tbl, key, w) ==
    LET all == OrderDesc(tbl.rows)
        vals == [i \in DOMAIN all |-> Cell(tbl.cols, all[i], key)]
    IN Limit(SelectSeq(vals, NotNull), w)

\* float(result[0]) of a fetched value: the id column holds integers
Parses(key, v) == key = "id" \/ IsFloatText(v[1])

ToFloat(key, v) == IF key = "id" THEN v[1] ELSE ParseFloat(v[1])

RECURSIVE Sum(_)
Sum(s) == IF s = <<>> THEN 0 ELSE Head(s) + Sum(Tail(s))

\* sum(values) / len(values), as the fraction num / den
Mean(values) == [num |-> Sum(values), den |-> Len(values)]

\* the int 0 the method returns when it has nothing to average
Zero == [num |-> 0, den |-> 1]

\* the column check is missing: the SELECT of a missing column raises
MovingAverageUnchecked(db, key, t, w) ==
    IF key \notin Range(TableInfo(db, t))
    THEN [exc |-> "OperationalError", val |-> Zero, warn |-> FALSE]
    ELSE
    LET results == SelectRecent(db[t], key, w) IN
    IF \E i \in DOMAIN results : ~Parses(key, results[i])
    THEN [exc |-> "ValueError", val |-> Zero, warn |-> FALSE]
    ELSE
    LET values == [i \in DOMAIN results |-> ToFloat(key, results[i])] IN
    IF values # <<>>
    THEN [exc |-> "", val |-> Mean(values), warn |-> FALSE]
    ELSE [exc |-> "", val |-> Zero, warn |-> TRUE]

\* get_moving_average(key, name_table, window_size) on an open connection
MovingAverage(db, key, t, w) ==
    LET columns == TableInfo(db, t) IN
    IF key \notin Range(columns)
    THEN [exc |-> "", val |-> Zero, warn |-> TRUE]
    ELSE
    LET results == SelectSeq(SelectRecent(db[t], key, w), NotNull) IN
    IF \E i \in DOMAIN results : ~Parses(key, results[i])
    THEN [exc |-> "ValueError", val |-> Zero, warn |-> FALSE]
    ELSE
    LET values == [i \in DOMAIN results |-> ToFloat(key, results[i])] IN
    IF values # <<>>
    THEN [exc |-> "", val |-> Mean(values), warn |-> FALSE]
    ELSE [exc |-> "", val |-> Zero, warn |-> TRUE]

\* SELECT * FROM t, with the column names of PRAGMA table_info(t)
Frame(db, t) == [name |-> t, cols |-> TableInfo(db, t), rows |-> OrderAsc(db[t].rows)]

\* a missing table is passed over in silence
LastRowSilent(db, t) ==
    LET last == Limit(OrderDesc(db[t].rows), 1) IN
    [exc |-> "",
     out |-> IF last # <<>>
             THEN {[name |-> t, cols |-> TableInfo(db, t), rows |-> last]}
             ELSE {}]

\* show_last_row(name_table) on an open connection: the row it prints
LastRow(db, t) ==
    IF ~InMaster(db, t)
    THEN [exc |-> "ValueError", out |-> {}]
    ELSE LET last == Limit(OrderDesc(db[t].rows), 1) IN
         [exc |-> "",
          out |-> IF last # <<>>
                  THEN {[name |-> t, cols |-> TableInfo(db, t), rows |-> last]}
                  ELSE {}]

\* get_pandas_dataframe / save_as_pandas_dataframe on an open connection:
\* the frame returned, or written to the csv file
DataFrame(db, t) ==
    IF ~InMaster(db, t)
    THEN [exc |-> "ValueError", out |-> {}]
    ELSE [exc |-> "", out |-> {Frame(db, t)}]

\* print_header(): every table of sqlite_master
Header(db) == {Frame(db, t) : t \in {u \in Tables : InMaster(db, u)}}

(* --------------------------- construction ------------------------------ *)

\* sqlite3.connect(path): the datafile exists afterwards, created empty when
\* it was missing
ExistsAfterConnect(existed) == TRUE

\* the open starts the datafile afresh
ConnectTruncating(dsk) == EmptyDb

\* sqlite3.connect(path): the database the new connection reads
Connect(dsk) == dsk

\* the line __init__ prints: datafile_dir.exists() is read after connect
InitReport(existed, verb) ==
    LET e == ExistsAfterConnect(existed) IN
    IF ~e /\ verb THEN "created"
    ELSE IF e /\ verb THEN "loaded"
    ELSE "none"

\* a closed connection still hands out cursors
CursorUnchecked(c) == ""

\* self.connect.cursor(): a closed connection raises
Cursor(c) == IF c = "closed" THEN "ProgrammingError" ELSE ""

(* ------------------------------ state ---------------------------------- *)

\* no call is in progress
Idle ==
    [op |-> "idle", t |-> "", key |-> "", w |-> 0, data |-> <<>>, exc |-> "",
     val |-> Zero, out |-> {}, msg |-> "none", existed |-> TRUE]

\* the calls made on a table so far are successful logs of pairwise
\* disjoint key sets: the keys and the number of calls
HistAfter(h, data, exc) ==
    LET keys == Range(DictKeys(data)) IN
    IF h.ok /\ exc = "" /\ keys \cap h.keys = {}
    THEN [ok |-> TRUE, keys |-> h.keys \cup keys, n |-> h.n + 1]
    ELSE [ok |-> FALSE, keys |-> {}, n |-> 0]

\* what MetricDB(base_dir, name_datafile, verbose) prints and returns
Constructed(existed, verb, db) ==
    [Idle EXCEPT !.op = "init", !.existed = existed,
                 !.msg = InitReport(existed, verb),
                 !.out = IF InitReport(existed, verb) = "loaded" THEN Header(db) ELSE {}]

\* the first MetricDB of the run: the path is missing, or holds the empty
\* database an earlier run left
Init ==
    /\ disk = EmptyDb
    /\ view = Connect(EmptyDb)
    /\ in_tx = FALSE
    /\ conn = "open"
    /\ verbose \in BOOLEAN
    /\ \E existed \in BOOLEAN : ret = Constructed(existed, verbose, view)
    /\ hist = [t \in Tables |-> [ok |-> TRUE, keys |-> {}, n |-> 0]]
    /\ nlog = 0

\* a new MetricDB on the same path; the connection it replaces, if still
\* open, is released, which rolls its open transaction back
Reopen ==
    /\ ret = Idle
    /\ \E verb \in BOOLEAN :
         /\ verbose' = verb
         /\ disk' = Connect(disk)
         /\ view' = Connect(disk)
         /\ ret' = Constructed(TRUE, verb, Connect(disk))
    /\ in_tx' = FALSE
    /\ conn' = "open"
    /\ UNCHANGED <<hist, nlog>>

LogOver(DS, TS) ==
    /\ ret = Idle
    /\ nlog < MaxLogs
    /\ nlog' = nlog + 1
    /\ \E data \in DS, t \in TS :
         LET r == IF Cursor(conn) # ""
                  THEN [exc |-> Cursor(conn), view |-> view, disk |-> disk,
                        in_tx |-> in_tx]
                  ELSE LogCall(view, disk, in_tx, data, t)
         IN /\ view' = r.view
            /\ disk' = r.disk
            /\ in_tx' = r.in_tx
            /\ ret' = [Idle EXCEPT !.op = "log", !.t = t, !.data = data, !.exc = r.exc]
            /\ hist' = [hist EXCEPT ![t] = HistAfter(@, data, r.exc)]
    /\ UNCHANGED <<conn, verbose>>

Log == LogOver(Dicts(Keys, SchemaValues), Tables)

LogAvg == LogOver(Dicts(AvgKeys, AvgValues), AvgTables)

GetMovingAverage ==
    /\ ret = Idle
    /\ \E key \in Keys, t \in Tables, w \in WindowSizes :
         LET r == IF Cursor(conn) # ""
                  THEN [exc |-> Cursor(conn), val |-> Zero, warn |-> FALSE]
                  ELSE MovingAverage(view, key, t, w)
         IN ret' = [Idle EXCEPT !.op = "get_moving_average", !.t = t, !.key = key,
                                !.w = w, !.exc = r.exc, !.val = r.val,
                                !.msg = IF r.warn /\ verbose THEN "warning" ELSE "none"]
    /\ UNCHANGED <<disk, view, in_tx, conn, verbose, hist, nlog>>

ShowLastRow ==
    /\ ret = Idle
    /\ \E t \in Tables :
         LET r == IF Cursor(conn) # ""
                  THEN [exc |-> Cursor(conn), out |-> {}]
                  ELSE LastRow(view, t)
         IN ret' = [Idle EXCEPT !.op = "show_last_row", !.t = t, !.exc = r.exc,
                                !.out = r.out,
                                !.msg = IF r.exc = "" /\ r.out = {} /\ verbose
                                        THEN "empty" ELSE "none"]
    /\ UNCHANGED <<disk, view, in_tx, conn, verbose, hist, nlog>>

GetPandasDataframe ==
    /\ ret = Idle
    /\ \E t \in Tables :
         LET r == IF Cursor(conn) # ""
                  THEN [exc |-> Cursor(conn), out |-> {}]
                  ELSE DataFrame(view, t)
         IN ret' = [Idle EXCEPT !.op = "get_pandas_dataframe", !.t = t,
                                !.exc = r.exc, !.out = r.out]
    /\ UNCHANGED <<disk, view, in_tx, conn, verbose, hist, nlog>>

SaveAsPandasDataframe ==
    /\ ret = Idle
    /\ \E t \in Tables :
         LET r == IF Cursor(conn) # ""
                  THEN [exc |-> Cursor(conn), out |-> {}]
                  ELSE DataFrame(view, t)
         IN ret' = [Idle EXCEPT !.op = "save_as_pandas_dataframe", !.t = t,
                                !.exc = r.exc, !.out = r.out]
    /\ UNCHANGED <<disk, view, in_tx, conn, verbose, hist, nlog>>

PrintHeader ==
    /\ ret = Idle
    /\ ret' = [Idle EXCEPT !.op = "print_header", !.exc = Cursor(conn),
                           !.out = IF Cursor(conn) # "" THEN {} ELSE Header(view)]
    /\ UNCHANGED <<disk, view, in_tx, conn, verbose, hist, nlog>>

\* on_end(): closing the connection rolls an open transaction back
OnEnd ==
    /\ ret = Idle
    /\ conn' = "closed"
    /\ view' = disk
    /\ in_tx' = FALSE
    /\ ret' = [Idle EXCEPT !.op = "on_end"]
    /\ UNCHANGED <<disk, verbose, hist, nlog>>

\* the caller has seen the outcome of its call and goes on
Return ==
    /\ ret # Idle
    /\ ret' = Idle
    /\ UNCHANGED <<disk, view, in_tx, conn, verbose, hist, nlog>>

Reads ==
    \/ GetMovingAverage
    \/ ShowLastRow
    \/ GetPandasDataframe
    \/ SaveAsPandasDataframe
    \/ PrintHeader

Next ==
    \/ Log
    \/ Reads
    \/ OnEnd
    \/ Reopen
    \/ Return

NextAvg ==
    \/ LogAvg
    \/ Reads
    \/ OnEnd
    \/ Reopen
    \/ Return

\* every key, two tables, values that are numbers or cannot be stored
Spec == Init /\ [][Next]_vars

\* one table, values that are numbers or text that is no number
SpecAvg == Init /\ [][NextAvg]_vars

(* ------------------------------ claims --------------------------------- *)

Min2(a, b) == IF a <= b THEN a ELSE b

IsPrefix(s, u) == Len(s) <= Len(u) /\ \A i \in DOMAIN s : s[i] = u[i]

NoRepeat(s) == \A i, j \in DOMAIN s : i # j => s[i] # s[j]

\* the rowids of the rows of tbl whose column key is not NULL
NonNullIds(tbl, key) == {r.id : r \in {q \in tbl.rows : Cell(tbl.cols, q, key) # NULL}}

\* the w largest of them: those with fewer than w larger ones
WindowIds(tbl, key, w) ==
    {i \in NonNullIds(tbl, key) : Cardinality({j \in NonNullIds(tbl, key) : j > i}) < w}

ValueAt(tbl, key, i) == Cell(tbl.cols, CHOOSE r \in tbl.rows : r.id = i, key)

RECURSIVE SumOver(_, _, _)
SumOver(tbl, key, ids) ==
    IF ids = {} THEN 0
    ELSE LET i == CHOOSE i \in ids : TRUE
         IN ToFloat(key, ValueAt(tbl, key, i)) + SumOver(tbl, key, ids \ {i})

\* C1: after N successful log calls of pairwise disjoint key sets to a table
\* (and no other call to it), the table's columns are id and the union of
\* the keys logged, each once, it holds exactly N rows, and all of it is
\* committed to the datafile.
C1_DisjointLogs ==
    \A t \in Tables :
        (hist[t].ok /\ hist[t].n >= 1) =>
            /\ view[t].exists
            /\ Range(view[t].cols) = {"id"} \cup hist[t].keys
            /\ NoRepeat(view[t].cols)
            /\ Cardinality(view[t].rows) = hist[t].n
            /\ disk[t] = view[t]

C1_Witness ==
    \E t \in Tables :
        /\ hist[t].ok
        /\ hist[t].n >= 2
        /\ Cardinality(hist[t].keys) >= 2
        /\ "id" \notin hist[t].keys
        /\ Cardinality(view[t].rows) >= 2

\* C2: on an open connection, for a key that is a column with k >= 1
\* non-null values and a window_size w >= 1 whose window holds numbers,
\* get_moving_average returns the mean of exactly the min(w, k) non-null
\* values of largest id: rows where the key is NULL take no window slot.
C2_WindowMean ==
    (/\ ret.op = "get_moving_average"
     /\ conn = "open"
     /\ ret.w >= 1
     /\ ret.key \in Range(view[ret.t].cols)
     /\ NonNullIds(view[ret.t], ret.key) # {}
     /\ \A i \in WindowIds(view[ret.t], ret.key, ret.w) :
            Parses(ret.key, ValueAt(view[ret.t], ret.key, i)))
    =>
    LET tbl == view[ret.t]
        win == WindowIds(tbl, ret.key, ret.w)
    IN /\ ret.exc = ""
       /\ Cardinality(win) = Min2(ret.w, Cardinality(NonNullIds(tbl, ret.key)))
       /\ ret.val.den = Cardinality(win)
       /\ ret.val.num = SumOver(tbl, ret.key, win)

\* a window of one over a logged number, with a newer row where the key is
\* NULL
C2_Witness ==
    /\ ret.op = "get_moving_average"
    /\ conn = "open"
    /\ ret.exc = ""
    /\ ret.w = 1
    /\ ret.key \in Range(view[ret.t].cols)
    /\ NonNullIds(view[ret.t], ret.key) # {}
    /\ \E r \in view[ret.t].rows :
          /\ Cell(view[ret.t].cols, r, ret.key) = NULL
          /\ \A i \in NonNullIds(view[ret.t], ret.key) : r.id > i
    /\ \A i \in NonNullIds(view[ret.t], ret.key) :
          Parses(ret.key, ValueAt(view[ret.t], ret.key, i))
    /\ ret.val = [num |-> 2, den |-> 1]

MissingColumn(db, t, key) == key \notin Range(db[t].cols)

\* C3: on an open connection, when the table has no column named key (the
\* table may not exist at all), get_moving_average raises nothing and
\* returns 0, and the call leaves the database, committed and uncommitted,
\* as it was.
C3_MissingColumn ==
    /\ []((/\ ret.op = "get_moving_average"
           /\ conn = "open"
           /\ MissingColumn(view, ret.t, ret.key))
          => (ret.exc = "" /\ ret.val = Zero))
    /\ [][(/\ ret'.op = "get_moving_average"
           /\ conn = "open"
           /\ MissingColumn(view, ret'.t, ret'.key))
          => (view' = view /\ disk' = disk /\ in_tx' = in_tx)]_vars

\* the key is missing from a table that exists and holds rows
C3_Witness ==
    /\ ret.op = "get_moving_average"
    /\ conn = "open"
    /\ view[ret.t].exists
    /\ view[ret.t].rows # {}
    /\ MissingColumn(view, ret.t, ret.key)
    /\ ret.exc = ""
    /\ ret.val = Zero

\* C4: on an open connection, get_moving_average of a key that is a column
\* raises nothing whatever text is stored: the values of the selected window
\* that are no numbers are left out of the mean, and the call returns 0 when
\* none of them is a number.
C4_UnparsableSkipped ==
    (/\ ret.op = "get_moving_average"
     /\ conn = "open"
     /\ ~MissingColumn(view, ret.t, ret.key))
    =>
    LET IsNumber(v) == Parses(ret.key, v)
        good == SelectSeq(SelectRecent(view[ret.t], ret.key, ret.w), IsNumber)
        nums == [i \in DOMAIN good |-> ToFloat(ret.key, good[i])]
    IN /\ ret.exc = ""
       /\ ret.val = IF nums = <<>> THEN Zero ELSE Mean(nums)

\* C5: on an open connection, show_last_row of a table that exists and has
\* no rows raises nothing and yields no row, show_last_row of a table that
\* does not exist raises the missing-table ValueError, and no show_last_row
\* changes the database.
C5_ShowLastRow ==
    /\ []((ret.op = "show_last_row" /\ conn = "open") =>
            /\ (view[ret.t].exists /\ view[ret.t].rows = {})
                  => (ret.exc = "" /\ ret.out = {})
            /\ ~view[ret.t].exists => ret.exc = "ValueError")
    /\ [][ret'.op = "show_last_row"
          => (view' = view /\ disk' = disk /\ in_tx' = in_tx)]_vars

\* the table exists with no rows
C5_Witness ==
    /\ ret.op = "show_last_row"
    /\ conn = "open"
    /\ view[ret.t].exists
    /\ view[ret.t].rows = {}
    /\ ret.exc = ""
    /\ ret.out = {}

C7_ReportDistinguishes ==
    (ret.op = "init" /\ verbose) =>
        /\ ret.msg = "created" <=> ~ret.existed
        /\ ret.msg = "loaded" <=> ret.existed

CallOps ==
    {"log", "get_moving_average", "show_last_row", "get_pandas_dataframe",
     "save_as_pandas_dataframe", "print_header"}

\* C8: once on_end has closed the connection, every log, get_moving_average,
\* show_last_row, export and print_header call on the handle raises, and
\* none of them changes the database.
C8_ClosedUnusable ==
    /\ []((conn = "closed" /\ ret.op \in CallOps) => ret.exc = "ProgrammingError")
    /\ [][(conn = "closed" /\ ret'.op \in CallOps)
          => (view' = view /\ disk' = disk /\ in_tx' = in_tx)]_vars

\* a log on the closed handle of a datafile that holds rows
C8_Witness ==
    /\ conn = "closed"
    /\ ret.op = "log"
    /\ ret.data # <<>>
    /\ ret.exc = "ProgrammingError"
    /\ \E t \in Tables : disk[t].rows # {}

\* C9: the column list a table shows only grows: id is first, no name is
\* there twice, and every step leaves the table in place with its columns
\* as a prefix of the new list.
C9_ColumnsOnlyGrow ==
    /\ [](\A t \in Tables :
            view[t].exists => (Head(view[t].cols) = "id" /\ NoRepeat(view[t].cols)))
    /\ [][\A t \in Tables :
            view[t].exists =>
                (view'[t].exists /\ IsPrefix(view[t].cols, view'[t].cols))]_vars

\* row q of the table as it reads once the columns have grown to n
Widened(q, n) ==
    [q EXCEPT !.cells = [j \in 1..(n - 1) |-> IF j <= Len(@) THEN @[j] ELSE NULL]]

\* what a successful log(data, t) must have done to the database
LogEffect(old, new, data, t) ==
    /\ new[t].exists
    /\ \A u \in Tables \ {t} : new[u] = old[u]
    /\ IF old[t].exists THEN IsPrefix(old[t].cols, new[t].cols) ELSE TRUE
    /\ Cardinality(new[t].rows) = Cardinality(old[t].rows) + 1
    /\ \E r \in new[t].rows :
          /\ \A q \in old[t].rows : r.id > q.id
          /\ new[t].rows \ {r} = {Widened(q, Len(new[t].cols)) : q \in old[t].rows}
          /\ \A j \in 2..Len(new[t].cols) :
                Cell(new[t].cols, r, new[t].cols[j]) =
                    IF new[t].cols[j] \in Range(DictKeys(data))
                    THEN Adapt(DictGet(data, new[t].cols[j]))
                    ELSE NULL

\* C10: a successful log adds exactly one row to the named table, with an id
\* above every id already there, the supplied value under each key of data
\* and NULL elsewhere; the stored rows keep their values, NULL in the new
\* columns, and the other tables are as they were.
C10_LogAddsOneRow ==
    [][(ret'.op = "log" /\ ret'.exc = "")
       => LogEffect(view, view', ret'.data, ret'.t)]_vars

====
